---- MODULE Spec2Model ----
(***************************************************************************)
(* Reaching-definitions map (RDMap) and points-to memory objects of dg.    *)
(*                                                                         *)
(* RDMap::merge, add, update, get and getObjectRange are translated from   *)
(* src/src/analysis/ReachingDefinitions/RDMap.cpp; Offset and MemoryObj    *)
(* from src/src/llvm/PointsTo.h.  DefSite, RDNodesSet, intervalsOverlap    *)
(* and the RDNode attributes (getSize, getType, isUnknown) are declared in *)
(* RDMap.h / ReachingDefinitions.h and are modelled from the               *)
(* specification text (sections 3 and 4).                                  *)
(***************************************************************************)
EXTENDS Integers, FiniteSets, Sequences, TLC

VARIABLES
    defs,       \* defs[m]: the std::map<DefSite, RDNodesSet> of RDMap m
    call,       \* the last RDMap call and its arguments
    ret,        \* what the last RDMap call returned
    before,     \* defs as it was when the last call started
    prev,       \* the call made before the last one
    cfg,        \* the arguments every merge call of the run is given
    node,       \* MemoryObj::node (TRUE: non-null, FALSE: nullptr)
    pointsTo,   \* MemoryObj::pointsTo
    moCall,     \* the last MemoryObj call
    moRet,      \* what the last MemoryObj call returned
    nSetUnknown \* number of setUnknown calls made so far

vars == <<defs, call, ret, before, prev, cfg,
          node, pointsTo, moCall, moRet, nSetUnknown>>
rdVars == <<defs, call, ret, before, prev, cfg>>
moVars == <<node, pointsTo, moCall, moRet, nSetUnknown>>

(***************************************************************************)
(* Offset (PointsTo.h 13-53).  An offset is a uint64_t.  A value v is      *)
(* written here as its two's-complement representative: v itself when      *)
(* v < 2^63 and v - 2^64 otherwise, so ~0 is -1, ~0 - 1 is -2, and         *)
(* addition and subtraction modulo 2^64 are plain integer + and - as long  *)
(* as the results stay far from 2^63 (all values here are within 64 of 0). *)
(* The unsigned order puts the negative representatives above the others.  *)
(***************************************************************************)
UNKNOWN_OFFSET == -1

\* F(e), with e evaluated once: LET x == e IN F(x)
Bind(e, F(_)) == CHOOSE v \in {F(x) : x \in {e}} : TRUE

isUnknownOff(o) == o = UNKNOWN_OFFSET

\* uint64_t a < b
ULt(a, b) == IF (a < 0) = (b < 0) THEN a < b ELSE b < 0
\* uint64_t a <= b
ULe(a, b) == a = b \/ ULt(a, b)

\* Offset::operator+ : unknown when either operand is unknown
OffsetPlus(a, b) ==
    IF a = UNKNOWN_OFFSET \/ b = UNKNOWN_OFFSET THEN UNKNOWN_OFFSET ELSE a + b

\* Offset::operator< compares the raw uint64_t
OffsetLess(a, b) == ULt(a, b)

(***************************************************************************)
(* RDNode identities.  Pointers are modelled by small integers, compared   *)
(* as the addresses are.  UNKNOWN_MEMORY is the node that stands for       *)
(* "any memory"; nodes 1..5 are memory objects (targets of definition      *)
(* sites), DefNodes are the nodes that write.                              *)
(***************************************************************************)
UNKNOWN_MEMORY == 0
TgtA == 1   \* regular object of known size
TgtD == 2   \* dynamically allocated object of known size
TgtZ == 3   \* regular object of unknown size (size 0)
TgtE == 4   \* dynamically allocated object of unknown size
ObjSize == 4
Targets == {UNKNOWN_MEMORY, TgtA, TgtD, TgtZ, TgtE}

N1 == 11
N2 == 12
DefNodes == {N1, N2}

\* RDNode::getSize(): 0 means unknown
getSize(t) == IF t \in {TgtA, TgtD} THEN ObjSize ELSE 0
\* RDNode::getType()
getType(t) == IF t \in {TgtD, TgtE} THEN "DYN_ALLOC" ELSE "ALLOC"
\* RDNode::isUnknown()
isUnknownNode(t) == t = UNKNOWN_MEMORY

(***************************************************************************)
(* DefSite (target, offset, len) and its order: by target, then offset,    *)
(* then length, offsets and lengths compared as Offset::operator< does.    *)
(***************************************************************************)
DefSite(t, o, l) == [target |-> t, offset |-> o, len |-> l]

DefSiteLess(a, b) ==
    IF a.target = b.target
    THEN IF a.offset = b.offset THEN OffsetLess(a.len, b.len)
         ELSE OffsetLess(a.offset, b.offset)
    ELSE a.target < b.target

\* comp_ds and comp: the order equal_range searches with compares targets only
comp_ds(a, b) == a.target < b.target

\* the elements of a set of def-sites in the order a std::set / std::map
\* iterates them
RECURSIVE InOrder(_)
InOrder(S) ==
    IF S = {} THEN <<>>
    ELSE LET x == CHOOSE y \in S : \A z \in S \ {y} : DefSiteLess(y, z)
         IN  <<x>> \o InOrder(S \ {x})

\* the elements of a set of node pointers in the order std::set iterates them
RECURSIVE NodesInOrder(_)
NodesInOrder(S) ==
    IF S = {} THEN <<>>
    ELSE LET x == CHOOSE y \in S : \A z \in S : y <= z
         IN  <<x>> \o NodesInOrder(S \ {x})

(***************************************************************************)
(* RDNodesSet: a set of nodes with the flag is_unknown.                    *)
(***************************************************************************)
EmptySet == [nodes |-> {}, is_unknown |-> FALSE]

\* RDNodesSet::makeUnknown()
makeUnknown(s) == [nodes |-> {UNKNOWN_MEMORY}, is_unknown |-> TRUE]

\* RDNodesSet::insert(n): the set afterwards and the value returned
insert(s, n) ==
    IF s.is_unknown THEN [set |-> s, ret |-> FALSE]
    ELSE IF n = UNKNOWN_MEMORY THEN [set |-> makeUnknown(s), ret |-> TRUE]
    ELSE [set |-> [s EXCEPT !.nodes = @ \cup {n}], ret |-> n \notin s.nodes]

\* for (RDNode *defnode : src) changed |= our_vals->insert(defnode);
RECURSIVE InsertSeq(_, _, _)
InsertSeq(s, changed, ns) ==
    IF ns = <<>> THEN [set |-> s, changed |-> changed]
    ELSE Bind(insert(s, Head(ns)),
              LAMBDA r : InsertSeq(r.set, changed \/ r.ret, Tail(ns)))

\* (mutant) every insertion loop reports a change
insertAllReportsChange(s, changed, src) ==
    Bind(NodesInOrder(src.nodes), LAMBDA ns : InsertSeq(s, TRUE, ns))

\* (mutant) no node of src is inserted
insertNone(s, changed, src) == [set |-> s, changed |-> changed]

insertAll(s, changed, src) ==
    Bind(NodesInOrder(src.nodes), LAMBDA ns : InsertSeq(s, changed, ns))

\* RDNodesSet::clear()
clear(s) == EmptySet

(***************************************************************************)
(* RDMap: defs is a function from the def-sites present to their sets.     *)
(***************************************************************************)
EmptyMap == [ds \in {} |-> EmptySet]

\* defs[ds]: std::map::operator[] creates an empty set when ds is absent
subscript(m, ds) ==
    IF ds \in DOMAIN m THEN m
    ELSE [x \in DOMAIN m \cup {ds} |-> IF x = ds THEN EmptySet ELSE m[x]]

erase(m, ds) == [x \in DOMAIN m \ {ds} |-> m[x]]

\* RDMap::getObjectRange: the entries whose target equals that of ds
getObjectRange(m, ds) ==
    {x \in DOMAIN m : ~comp_ds(x, ds) /\ ~comp_ds(ds, x)}

\* std::equal_range(no_update->begin(), no_update->end(), ds, comp_ds)
killRange(no_update, ds) ==
    {x \in no_update : ~comp_ds(x, ds) /\ ~comp_ds(ds, x)}

(***************************************************************************)
(* RDMap::merge (RDMap.cpp 58-192).  no_update is [has, sites]: has is     *)
(* FALSE for a null pointer, sites is the DefSiteSetT otherwise.           *)
(***************************************************************************)
NoKill == [has |-> FALSE, sites |-> {}]
KillSet(S) == [has |-> TRUE, sites |-> S]

\* (mutant) the length of the write is not compared with the size
overwritesWholeAnyLen(ds, ds2) == ds2.offset = 0

\* line 98: does the write ds2 overwrite the whole memory of ds.target
overwritesWhole(ds, ds2) ==
    ds2.offset = 0 /\ ULe(getSize(ds.target), ds2.len)

\* lines 129-130: does the write ds2 cover the bytes of ds (raw uint64_t
\* arithmetic, as operator* yields the raw offset)
overwrites(ds, ds2) ==
    /\ ULe(ds2.offset, ds.offset)
    /\ ULe(ds.offset + ds.len, ds2.offset + ds2.len)

\* lines 113-134: the loop over the range of no_update, in its order
RECURSIVE scanNoUpdate(_, _)
scanNoUpdate(ds, range) ==
    IF range = <<>> THEN [skip |-> FALSE, is_unknown |-> FALSE]
    ELSE LET ds2 == Head(range)
         IN  IF isUnknownOff(ds2.offset)
             THEN [skip |-> FALSE, is_unknown |-> TRUE]
             ELSE IF overwrites(ds, ds2)
             THEN [skip |-> TRUE, is_unknown |-> FALSE]
             ELSE scanNoUpdate(ds, Tail(range))

\* lines 70-141: whether the site ds of oth is skipped, and is_unknown
strongUpdate(ds, no_update, strong_update_unknown) ==
    LET is_unknown == isUnknownOff(ds.offset)
        range == killRange(no_update.sites, ds)
    IN  IF ~no_update.has
        THEN [skip |-> FALSE, is_unknown |-> is_unknown]
        ELSE IF strong_update_unknown /\ is_unknown /\ getSize(ds.target) > 0
        THEN [skip |-> \E ds2 \in range : overwritesWhole(ds, ds2),
              is_unknown |-> is_unknown]
        ELSE IF getType(ds.target) # "DYN_ALLOC"
        THEN Bind(scanNoUpdate(ds, InOrder(range)), LAMBDA r :
                  [skip |-> r.skip, is_unknown |-> is_unknown \/ r.is_unknown])
        ELSE [skip |-> FALSE, is_unknown |-> is_unknown]

\* (mutant) the entries folded away are erased without their nodes being
\* inserted into the unknown-offset entry
RECURSIVE foldIntoDropping(_, _, _, _)
foldIntoDropping(m, changed, key, range) ==
    IF range = <<>> THEN [defs |-> m, changed |-> changed]
    ELSE IF Head(range) = key
    THEN foldIntoDropping(m, changed, key, Tail(range))
    ELSE Bind(erase(m, Head(range)), LAMBDA m1 :
              foldIntoDropping(m1, TRUE, key, Tail(range)))

\* lines 153-170: move every other entry of the target into the entry key
RECURSIVE foldInto(_, _, _, _)
foldInto(m, changed, key, range) ==
    IF range = <<>> THEN [defs |-> m, changed |-> changed]
    ELSE IF Head(range) = key THEN foldInto(m, changed, key, Tail(range))
    ELSE Bind(insertAll(m[key], changed, m[Head(range)]), LAMBDA r :
         Bind(erase([m EXCEPT ![key] = r.set], Head(range)), LAMBDA m1 :
              foldInto(m1, r.changed, key, Tail(range))))

\* (mutant) the set is cropped whatever its target is
cropAnyTarget(ds, s, max_set_size) ==
    IF Cardinality(s.nodes) > max_set_size THEN makeUnknown(s) ELSE s

\* (mutant) the set is cropped as soon as it reaches max_set_size
cropAtLimit(ds, s, max_set_size) ==
    IF ~isUnknownNode(ds.target) /\ Cardinality(s.nodes) >= max_set_size
    THEN makeUnknown(s) ELSE s

\* lines 184-188
crop(ds, s, max_set_size) ==
    IF ~isUnknownNode(ds.target) /\ Cardinality(s.nodes) > max_set_size
    THEN makeUnknown(s) ELSE s

\* (mutant) our_vals is always the entry of the incoming site
ourKeyNeverFolds(ds, is_unknown, merge_unknown) == ds

\* line 150 / line 175: the entry our_vals points to
ourKey(ds, is_unknown, merge_unknown) ==
    IF merge_unknown /\ is_unknown
    THEN DefSite(ds.target, UNKNOWN_OFFSET, UNKNOWN_OFFSET)
    ELSE ds

\* lines 143-188: merge the entry (ds, vals) of oth into the map m
mergeSite(m, changed, ds, vals, is_unknown, max_set_size, merge_unknown) ==
    Bind(ourKey(ds, is_unknown, merge_unknown), LAMBDA key :
    Bind(subscript(m, key), LAMBDA m0 :
    Bind(IF merge_unknown /\ is_unknown
         THEN Bind(InOrder(getObjectRange(m0, ds)), LAMBDA range :
                   foldInto(m0, changed, key, range))
         ELSE [defs |-> m0, changed |-> changed], LAMBDA f :
    Bind(insertAll(f.defs[key], f.changed, vals), LAMBDA r :
         [defs |-> [f.defs EXCEPT ![key] = crop(ds, r.set, max_set_size)],
          changed |-> r.changed]))))

\* lines 68-189: one iteration of the loop over oth->defs
mergeIter(st, ds, vals, no_update, strong_update_unknown, max_set_size, merge_unknown) ==
    Bind(strongUpdate(ds, no_update, strong_update_unknown), LAMBDA d :
         IF d.skip
         THEN [st EXCEPT !.skipped = @ \cup {ds}]
         ELSE Bind(mergeSite(st.defs, st.changed, ds, vals, d.is_unknown,
                             max_set_size, merge_unknown), LAMBDA r :
                   [defs |-> r.defs, changed |-> r.changed,
                    skipped |-> st.skipped]))

\* lines 68-189: the loop over oth->defs
RECURSIVE mergeLoop(_, _, _, _, _, _, _)
mergeLoop(st, todo, oth, no_update, strong_update_unknown, max_set_size, merge_unknown) ==
    IF todo = <<>> THEN st
    ELSE Bind(mergeIter(st, Head(todo), oth[Head(todo)], no_update,
                        strong_update_unknown, max_set_size, merge_unknown),
              LAMBDA st1 :
                  mergeLoop(st1, Tail(todo), oth, no_update,
                            strong_update_unknown, max_set_size,
                            merge_unknown))

\* (mutant) merge without the test this == oth
mergeNoSelfTest(this, oth, same, no_update, strong_update_unknown, max_set_size, merge_unknown) ==
    Bind(InOrder(DOMAIN oth), LAMBDA todo :
         mergeLoop([defs |-> this, changed |-> FALSE, skipped |-> {}],
                   todo, oth, no_update, strong_update_unknown,
                   max_set_size, merge_unknown))

\* RDMap::merge: the map afterwards, the value returned, and the sites of
\* oth that were left out.  same is TRUE when oth is this map (line 64).
merge(this, oth, same, no_update, strong_update_unknown, max_set_size, merge_unknown) ==
    IF same THEN [defs |-> this, changed |-> FALSE, skipped |-> {}]
    ELSE Bind(InOrder(DOMAIN oth), LAMBDA todo :
              mergeLoop([defs |-> this, changed |-> FALSE, skipped |-> {}],
                        todo, oth, no_update, strong_update_unknown,
                        max_set_size, merge_unknown))

\* RDMap::add
add(m, p, n) ==
    Bind(subscript(m, p), LAMBDA m0 :
    Bind(insert(m0[p], n), LAMBDA r :
         [defs |-> [m0 EXCEPT ![p] = r.set], ret |-> r.ret]))

\* (mutant) update reports a change only when n was not in the set
updateCountOnly(m, p, n) ==
    Bind(subscript(m, p), LAMBDA m0 :
         [defs |-> [m0 EXCEPT ![p] = insert(clear(m0[p]), n).set],
          ret |-> n \notin m0[p].nodes])

\* RDMap::update
update(m, p, n) ==
    Bind(subscript(m, p), LAMBDA m0 :
         [defs |-> [m0 EXCEPT ![p] = insert(clear(m0[p]), n).set],
          ret |-> (n \notin m0[p].nodes) \/ Cardinality(m0[p].nodes) > 1])

\* RDMap::definesWithAnyOffset
definesWithAnyOffset(m, ds) == getObjectRange(m, ds) # {}

\* intervalsOverlap(a1, a2, b1, b2): closed intervals [a1, a2] and [b1, b2]
intervalsOverlap(a1, a2, b1, b2) == ULe(a1, b2) /\ ULe(b1, a2)

\* (mutant) the last byte of each range is taken to be offset + len
getPicksPastEnd(e, ds) ==
    \/ isUnknownOff(e.offset)
    \/ (isUnknownOff(ds.len) /\ ULe(ds.offset, e.offset))
    \/ intervalsOverlap(e.offset, e.offset + e.len,
                        ds.offset, ds.offset + ds.len)

\* lines 238-247: is the entry e picked for the query ds
getPicks(e, ds) ==
    \/ isUnknownOff(e.offset)
    \/ (isUnknownOff(ds.len) /\ ULe(ds.offset, e.offset))
    \/ intervalsOverlap(e.offset, e.offset + e.len - 1,
                        ds.offset, ds.offset + ds.len - 1)

\* RDMap::get(DefSite&, std::set<RDNode *>&): the nodes put into ret
get(m, ds) ==
    IF isUnknownOff(ds.offset)
    THEN UNION {m[e].nodes : e \in getObjectRange(m, ds)}
    ELSE UNION {m[e].nodes : e \in {x \in getObjectRange(m, ds) : getPicks(x, ds)}}

\* RDMap::RDMap(const RDMap&): merge(&o) with the default arguments
DefaultMaxSetSize == 2147483647
copy(o) == merge(EmptyMap, o, FALSE, NoKill, TRUE, DefaultMaxSetSize, FALSE)

(***************************************************************************)
(* MemoryObj (PointsTo.h 74-98).  A Pointer is (obj, offset); pointsTo is  *)
(* a function from the offsets present to their sets of pointers.          *)
(***************************************************************************)
Pointer(obj, off) == [obj |-> obj, offset |-> off]

isUnknown(nd) == ~nd

\* (mutant) addPointsTo does not look at isUnknown()
addPointsToUnchecked(nd, pts, off, ptr) ==
    LET old == IF off \in DOMAIN pts THEN pts[off] ELSE {}
    IN  [node |-> nd,
         pointsTo |-> [x \in DOMAIN pts \cup {off} |->
                          IF x = off THEN old \cup {ptr} ELSE pts[x]],
         ret |-> ptr \notin old]

\* MemoryObj::addPointsTo
addPointsTo(nd, pts, off, ptr) ==
    IF isUnknown(nd) THEN [node |-> nd, pointsTo |-> pts, ret |-> FALSE]
    ELSE LET old == IF off \in DOMAIN pts THEN pts[off] ELSE {}
         IN  [node |-> nd,
              pointsTo |-> [x \in DOMAIN pts \cup {off} |->
                               IF x = off THEN old \cup {ptr} ELSE pts[x]],
              ret |-> ptr \notin old]

\* MemoryObj::setUnknown
setUnknown(nd, pts) ==
    IF isUnknown(nd) THEN [node |-> nd, pointsTo |-> pts, ret |-> FALSE]
    ELSE [node |-> FALSE, pointsTo |-> [x \in {} |-> {}], ret |-> TRUE]

(***************************************************************************)
(* Inputs.                                                                 *)
(***************************************************************************)
MaxEntries == 2     \* entries of a map handed to merge or get
MaxKill == 2        \* entries of a kill set
Maps == {1, 2, 3}

S(ns) == [nodes |-> ns, is_unknown |-> FALSE]
Unk == makeUnknown(EmptySet)

NoSite == DefSite(UNKNOWN_MEMORY, UNKNOWN_OFFSET, UNKNOWN_OFFSET)
NoCall == [op |-> "none", this |-> 0, oth |-> 0, ds |-> NoSite, n |-> 0]
NoRet == [changed |-> FALSE, nodes |-> {}, skipped |-> {}]

\* every map with at most k entries, its sites from sites and its sets from sets
MapsOver(sites, sets, k) ==
    UNION {[D -> sets] : D \in {X \in SUBSET sites : Cardinality(X) <= k}}

\* the empty map and every map with one entry
UpToOne(sites, sets) ==
    {EmptyMap} \cup {[x \in {ds} |-> v] : ds \in sites, v \in sets}

Args(no_update, sun, max, fold) ==
    [no_update |-> no_update, strong_update_unknown |-> sun,
     max_set_size |-> max, merge_unknown |-> fold]
DefaultArgs == Args(NoKill, TRUE, DefaultMaxSetSize, FALSE)

MaxSetSizes == {1, 2}

\* MemoryObj(LLVMNode *n): node is TRUE for a node, FALSE for nullptr
InitMO ==
    /\ node \in BOOLEAN
    /\ pointsTo = [x \in {} |-> {}]
    /\ moCall = [op |-> "none", off |-> 0, ptr |-> Pointer(0, 0)]
    /\ moRet = FALSE
    /\ nSetUnknown = 0

\* a MemoryObj constructed with a node, for the runs that call no MemoryObj
\* operation
IdleMO == InitMO /\ node = TRUE

InitGhost ==
    /\ call = NoCall
    /\ prev = NoCall
    /\ ret = NoRet
    /\ before = defs

\* --- merge of two maps of one regular object ------------------------------
FoldSites ==
    {DefSite(TgtA, 0, 4), DefSite(TgtA, 4, 4),
     DefSite(TgtA, UNKNOWN_OFFSET, 4),
     DefSite(TgtA, UNKNOWN_OFFSET, UNKNOWN_OFFSET)}
ThisSets == {S({N1}), S({N1, N2}), Unk}
OthSets == {S({N2}), S({N1, N2}), Unk}
FoldKills == {NoKill, KillSet({DefSite(TgtA, UNKNOWN_OFFSET, UNKNOWN_OFFSET)})}

Init ==
    /\ \E m \in MapsOver(FoldSites, ThisSets, MaxEntries),
          o \in MapsOver(FoldSites, OthSets, MaxEntries) :
          defs = [x \in Maps |-> IF x = 1 THEN m ELSE IF x = 2 THEN o
                                 ELSE EmptyMap]
    /\ \E k \in FoldKills, max \in MaxSetSizes, fold \in BOOLEAN :
          cfg = Args(k, TRUE, max, fold)
    /\ InitGhost
    /\ IdleMO

\* --- the calls --------------------------------------------------------------
Merge(this, oth) ==
    \E r \in {merge(defs[this], defs[oth], this = oth, cfg.no_update,
                    cfg.strong_update_unknown, cfg.max_set_size,
                    cfg.merge_unknown)} :
        /\ defs' = [defs EXCEPT ![this] = r.defs]
        /\ call' = [op |-> "merge", this |-> this, oth |-> oth,
                    ds |-> NoSite, n |-> 0]
        /\ ret' = [changed |-> r.changed, nodes |-> {}, skipped |-> r.skipped]
        /\ before' = defs
        /\ prev' = call
        /\ UNCHANGED <<cfg, moVars>>

\* this = RDMap(oth)
Copy(this, oth) ==
    LET r == copy(defs[oth])
    IN  /\ defs' = [defs EXCEPT ![this] = r.defs]
        /\ call' = [op |-> "copy", this |-> this, oth |-> oth,
                    ds |-> NoSite, n |-> 0]
        /\ ret' = [changed |-> r.changed, nodes |-> {}, skipped |-> r.skipped]
        /\ before' = defs
        /\ prev' = call
        /\ UNCHANGED <<cfg, moVars>>

Get(this, ds) ==
    /\ call' = [op |-> "get", this |-> this, oth |-> this, ds |-> ds, n |-> 0]
    /\ ret' = [changed |-> FALSE, nodes |-> get(defs[this], ds),
               skipped |-> {}]
    /\ before' = defs
    /\ prev' = call
    /\ UNCHANGED <<defs, cfg, moVars>>

MergeInto == Merge(1, 2)
CopyFrom == call.op = "none" /\ Copy(1, 2)

Next == MergeInto \/ CopyFrom

Spec == Init /\ [][Next]_vars

\* --- merge of one incoming site under a kill set ----------------------------
KillOffsets == {0, 2, UNKNOWN_OFFSET}
KillLens == {2, 4, UNKNOWN_OFFSET}
SitesOf(t) == {DefSite(t, o, l) : o \in KillOffsets, l \in KillLens}
KillSets(t) ==
    {NoKill} \cup
    {KillSet(K) : K \in {X \in SUBSET SitesOf(t) : Cardinality(X) <= MaxKill}}

InitKill ==
    /\ \E t \in Targets, ds \in UNION {SitesOf(x) : x \in Targets} :
          /\ ds.target = t
          /\ \E m \in {EmptyMap, [x \in {ds} |-> S({N1})],
                       [x \in {DefSite(t, UNKNOWN_OFFSET, UNKNOWN_OFFSET)}
                           |-> S({N1})]} :
                defs = [x \in Maps |->
                          IF x = 1 THEN m
                          ELSE IF x = 2 THEN [y \in {ds} |-> S({N1, N2})]
                          ELSE EmptyMap]
          /\ \E k \in KillSets(t), sun \in BOOLEAN, max \in MaxSetSizes,
                fold \in BOOLEAN :
                cfg = Args(k, sun, max, fold)
    /\ InitGhost
    /\ IdleMO

SpecKill == InitKill /\ [][Next]_vars

(***************************************************************************)
(* What a merge call did with a site of the source map.                    *)
(***************************************************************************)
IsMerge == call.op = "merge" /\ call.this # call.oth
This == defs[call.this]
Oth == defs[call.oth]
ThisBefore == before[call.this]

\* the site was left out of the merge
Dropped(ds) == ds \in ret.skipped

\* the receiving map m accounts for node n of site ds: in the entry of ds or
\* in an unknown-offset entry of its target, that entry holding n or being
\* collapsed to unknown memory
Holds(m, ds, n) ==
    \E e \in DOMAIN m :
        /\ e.target = ds.target
        /\ e = ds \/ isUnknownOff(e.offset)
        /\ m[e].is_unknown \/ n \in m[e].nodes

\* every node of oth's site ds was merged into m
MergedIn(m, oth, ds) == \A n \in oth[ds].nodes : Holds(m, ds, n)

\* C3: a site of a dynamically allocated target is never dropped by a kill
\* set: all its nodes are merged into the receiving map.
C3_DynAllocNeverDropped ==
    IsMerge =>
        \A ds \in DOMAIN Oth :
            getType(ds.target) = "DYN_ALLOC" =>
                ~Dropped(ds) /\ MergedIn(This, Oth, ds)

\* the byte range of k contains the whole byte range of ds; a range of
\* unknown length has no known end
Contains(k, ds) ==
    /\ k.offset <= ds.offset
    /\ \/ isUnknownOff(k.len)
       \/ ~isUnknownOff(ds.len) /\ ds.offset + ds.len <= k.offset + k.len

\* C4: with a kill set of concrete offsets, a concrete-offset site of a
\* non-dynamic target is dropped iff one kill entry contains its whole byte
\* range; otherwise it is merged with all of its nodes.
C4_DroppedIffContained ==
    (IsMerge /\ cfg.no_update.has) =>
        \A ds \in DOMAIN Oth :
            LET range == killRange(cfg.no_update.sites, ds)
            IN  (/\ getType(ds.target) # "DYN_ALLOC"
                 /\ ~isUnknownOff(ds.offset)
                 /\ \A k \in range : ~isUnknownOff(k.offset))
                => /\ Dropped(ds) <=> \E k \in range : Contains(k, ds)
                   /\ ~Dropped(ds) => MergedIn(This, Oth, ds)

\* the kill set has a write at offset 0 of the target of ds that is at least
\* as long as the target (an unknown length is the largest length)
KillsWhole(ds) ==
    \E k \in cfg.no_update.sites :
        k.target = ds.target /\ k.offset = 0 /\ ULe(getSize(ds.target), k.len)

\* C8: with killUnknownWithFullOverwrite, an unknown-offset site of a target
\* of known size contributes nothing when the kill set overwrites the whole
\* target, and is merged with all of its nodes when it does not.
C8_UnknownKilledByFullOverwrite ==
    (IsMerge /\ cfg.no_update.has /\ cfg.strong_update_unknown) =>
        \A ds \in DOMAIN Oth :
            (isUnknownOff(ds.offset) /\ getSize(ds.target) > 0) =>
                IF KillsWhole(ds)
                THEN /\ Dropped(ds)
                     /\ DOMAIN Oth = {ds} => (This = ThisBefore /\ ~ret.changed)
                ELSE ~Dropped(ds) /\ MergedIn(This, Oth, ds)

C8_Witness ==
    /\ IsMerge /\ cfg.no_update.has /\ cfg.strong_update_unknown
    /\ \E ds \in DOMAIN Oth :
          /\ isUnknownOff(ds.offset) /\ getSize(ds.target) > 0
          /\ KillsWhole(ds) /\ Dropped(ds)
          /\ This = EmptyMap

(***************************************************************************)
(* Merging twice, monotonicity, copies (specification Spec).               *)
(***************************************************************************)
\* the last two calls were the same merge (the arguments are those of cfg,
\* and the source map is not written between them)
IsRepeatedMerge == IsMerge /\ prev = call

\* C1: merging an unchanged source a second time with the same arguments
\* returns false and leaves the receiving map as the first call left it.
C1_MergeIdempotent ==
    IsRepeatedMerge => (~ret.changed /\ This = ThisBefore)

\* node n of the entry e that the map held before the call is still held:
\* by the entry e while it exists, by the unknown-offset entry of the target
\* once e was folded away; a collapsed set holds every node
Kept(e, n) ==
    LET u == DefSite(e.target, UNKNOWN_OFFSET, UNKNOWN_OFFSET)
        k == IF e \in DOMAIN This THEN e ELSE u
    IN  k \in DOMAIN This /\ (This[k].is_unknown \/ n \in This[k].nodes)

\* C5: merge is monotone: every node the receiving map held for a target
\* before a merge is held after it, in the same entry or in the target's
\* unknown-offset entry, unless that node set has collapsed to unknown.
C5_MergeMonotone ==
    IsMerge => \A e \in DOMAIN ThisBefore :
                  \A n \in ThisBefore[e].nodes : Kept(e, n)

C5_Witness ==
    /\ IsMerge /\ ret.changed
    /\ \E e \in DOMAIN ThisBefore : e \notin DOMAIN This
    /\ \E e \in DOMAIN ThisBefore :
          e \in DOMAIN This /\ ~ThisBefore[e].is_unknown /\ This[e].is_unknown

\* maxSetSize is not exceeded by any set of the source map
NotExceeded(oth, max) ==
    \A ds \in DOMAIN oth :
        isUnknownNode(ds.target) \/ Cardinality(oth[ds].nodes) <= max

\* C6: merging a map into an empty map with no kill set, folding off and
\* maxSetSize not exceeded (what the copy constructor does) yields the sites
\* and node sets of the source, and returns true iff the source has an entry.
C6_CopyIsStructural ==
    /\ (IsMerge /\ ThisBefore = EmptyMap /\ ~cfg.no_update.has
          /\ ~cfg.merge_unknown /\ NotExceeded(Oth, cfg.max_set_size))
       => (This = Oth /\ (ret.changed <=> Oth # EmptyMap))
    /\ call.op = "copy"
       => (This = Oth /\ (ret.changed <=> Oth # EmptyMap))

C6_Witness ==
    /\ IsMerge /\ ThisBefore = EmptyMap /\ ~cfg.no_update.has
    /\ ~cfg.merge_unknown /\ NotExceeded(Oth, cfg.max_set_size)
    /\ Cardinality(DOMAIN Oth) = 2 /\ ret.changed
    /\ \E ds \in DOMAIN Oth : Cardinality(Oth[ds].nodes) = cfg.max_set_size
    /\ \E ds \in DOMAIN Oth : Oth[ds].is_unknown

(***************************************************************************)
(* The fixed-point driver: maps 1, 2, 3 at the nodes of a graph, a merge   *)
(* along an edge (this, oth) merges map oth into map this.  Every edge is  *)
(* merged again and again (weak fairness per edge).                        *)
(***************************************************************************)
Edges == {<<1, 2>>, <<1, 3>>, <<3, 1>>}

DriverSites ==
    {DefSite(TgtA, 0, 4), DefSite(TgtA, UNKNOWN_OFFSET, 4),
     DefSite(TgtA, UNKNOWN_OFFSET, UNKNOWN_OFFSET)}

InitDriver ==
    /\ \E o \in MapsOver(DriverSites, {S({N1})}, MaxEntries),
          p \in UpToOne(DriverSites, {S({N2})}) :
          /\ o # EmptyMap
          /\ defs = [x \in Maps |-> IF x = 1 THEN EmptyMap
                                 ELSE IF x = 2 THEN o ELSE p]
    /\ \E max \in MaxSetSizes, fold \in BOOLEAN :
          cfg = Args(NoKill, TRUE, max, fold)
    /\ InitGhost
    /\ IdleMO

MergeEdge(e) == Merge(e[1], e[2])

NextDriver == \E e \in Edges : MergeEdge(e)

SpecDriver ==
    /\ InitDriver
    /\ [][NextDriver]_vars
    /\ \A e \in Edges : WF_vars(MergeEdge(e))

\* what a merge along the edge e would return now
WouldChange(e) ==
    merge(defs[e[1]], defs[e[2]], e[1] = e[2], cfg.no_update,
          cfg.strong_update_unknown, cfg.max_set_size,
          cfg.merge_unknown).changed

FixedPoint == \A e \in Edges : ~WouldChange(e)

\* C2: a driver that keeps merging over the edges of the graph eventually
\* reaches a state in which every merge over every edge returns false.
C2_DriverTerminates == <>FixedPoint

(***************************************************************************)
(* Sequences of merges into one map from two sources (specification        *)
(* SpecSeq): the graph of the driver, without fairness, from more maps.    *)
(***************************************************************************)
InitSeq ==
    /\ \E m \in UpToOne(FoldSites, {S({N1}), Unk}),
          o \in MapsOver(FoldSites, {S({N1}), S({N1, N2})}, MaxEntries),
          p \in UpToOne(FoldSites, {S({N2})}) :
          /\ o # EmptyMap
          /\ defs = [x \in Maps |-> IF x = 1 THEN m ELSE IF x = 2 THEN o ELSE p]
    /\ \E max \in MaxSetSizes, fold \in BOOLEAN :
          cfg = Args(NoKill, TRUE, max, fold)
    /\ InitGhost
    /\ IdleMO

SpecSeq == InitSeq /\ [][NextDriver]_vars

EntriesOf(m, t) == {e \in DOMAIN m : e.target = t}
UnknownEntry(t) == DefSite(t, UNKNOWN_OFFSET, UNKNOWN_OFFSET)

\* the last merge call (or the last two, into the same map) merged a
\* concrete-offset site c and then an unknown-offset site of the target t
ConcreteThenUnknown(t, c) ==
    /\ IsMerge
    /\ c.target = t /\ ~isUnknownOff(c.offset)
    /\ \E u \in EntriesOf(Oth, t) : isUnknownOff(u.offset)
    /\ \/ c \in DOMAIN Oth
       \/ /\ prev.op = "merge" /\ prev.this = call.this
          /\ prev.oth # prev.this
          /\ c \in DOMAIN defs[prev.oth]

\* the source map the site c was merged from
SourceOf(c) == IF c \in DOMAIN Oth THEN Oth ELSE defs[prev.oth]

\* the sets that went into the entries of t: those the receiving map held
\* before the last call, those of the source, and that of c
InputSets(t, c) ==
    {ThisBefore[e] : e \in EntriesOf(ThisBefore, t)}
    \cup {Oth[e] : e \in EntriesOf(Oth, t)}
    \cup {SourceOf(c)[c]}

InputNodes(t, c) == UNION {s.nodes : s \in InputSets(t, c)}

FoldCase(t, c) ==
    cfg.merge_unknown /\ ~cfg.no_update.has /\ ConcreteThenUnknown(t, c)

\* C9 as stated: the map then holds exactly one entry for the target, at
\* unknown offset, and its node set is the union of the sets merged.
C9_FoldGivesUnion ==
    \A t \in Targets : \A c \in UNION {DOMAIN defs[x] : x \in Maps} :
        (FoldCase(t, c) /\ \A s \in InputSets(t, c) : ~s.is_unknown) =>
            /\ EntriesOf(This, t) = {UnknownEntry(t)}
            /\ This[UnknownEntry(t)] = S(InputNodes(t, c))

\* C9 amended: exactly one entry, at unknown offset; its node set is the
\* union when no set merged is collapsed and the union has at most
\* maxSetSize nodes (or the target is unknown memory), and is collapsed to
\* unknown otherwise.
C9_FoldGivesUnionOrCollapse ==
    \A t \in Targets : \A c \in UNION {DOMAIN defs[x] : x \in Maps} :
        FoldCase(t, c) =>
            /\ EntriesOf(This, t) = {UnknownEntry(t)}
            /\ This[UnknownEntry(t)] =
                  IF /\ \A s \in InputSets(t, c) : ~s.is_unknown
                     /\ \/ isUnknownNode(t)
                        \/ Cardinality(InputNodes(t, c)) <= cfg.max_set_size
                  THEN S(InputNodes(t, c))
                  ELSE Unk

\* two successive calls, a concrete site from map 2 and then an unknown
\* site from map 3, on top of an entry the map held, without collapse
C9_Witness ==
    /\ call = [NoCall EXCEPT !.op = "merge", !.this = 1, !.oth = 3]
    /\ prev = [NoCall EXCEPT !.op = "merge", !.this = 1, !.oth = 2]
    /\ \E c \in DOMAIN defs[2] : FoldCase(TgtA, c) /\ c \notin DOMAIN Oth
    /\ This = [x \in {UnknownEntry(TgtA)} |-> S({N1, N2})]
    /\ Cardinality(DOMAIN ThisBefore) = 2

(***************************************************************************)
(* Queries (specification SpecGet).                                        *)
(***************************************************************************)
GetSites ==
    {DefSite(TgtA, 0, 4), DefSite(TgtA, 4, 4), DefSite(TgtA, 2, 4),
     DefSite(TgtA, UNKNOWN_OFFSET, UNKNOWN_OFFSET),
     DefSite(TgtA, UNKNOWN_OFFSET, 4),
     DefSite(TgtA, 4, UNKNOWN_OFFSET),
     DefSite(TgtZ, 0, 4), DefSite(TgtZ, 4, 4)}
Queries ==
    {DefSite(t, o, l) : t \in {TgtA, TgtZ}, o \in {0, 2, 4, 7, UNKNOWN_OFFSET},
                        l \in {1, 4, UNKNOWN_OFFSET}}

InitGet ==
    /\ \E m \in MapsOver(GetSites, {S({N1}), S({N2})}, MaxEntries) :
          defs = [x \in Maps |-> IF x = 1 THEN m ELSE EmptyMap]
    /\ cfg = DefaultArgs
    /\ InitGhost
    /\ IdleMO

GetAny == \E ds \in Queries : Get(1, ds)

NextGet == GetAny

SpecGet == InitGet /\ [][NextGet]_vars

\* the byte ranges [e.offset, e.offset + e.len) and [q.offset, q.offset +
\* q.len) of known offsets and lengths share a byte
RangesIntersect(e, q) ==
    e.offset < q.offset + q.len /\ q.offset < e.offset + e.len

\* every concrete-offset entry of the target t has a known length >= 1
KnownLengths(m, t) ==
    \A e \in EntriesOf(m, t) :
        isUnknownOff(e.offset) \/ (~isUnknownOff(e.len) /\ e.len >= 1)

\* C7: for a concrete query offset and known lengths of at least 1, get
\* returns exactly the union of the node sets of the entries of the target
\* whose offset is unknown or whose byte range intersects the query's; for
\* an unknown query offset it returns the union over all entries of the
\* target.
C7_GetReturnsOverlapping ==
    call.op = "get" =>
        LET q == call.ds
            m == This
        IN  IF isUnknownOff(q.offset)
            THEN ret.nodes = UNION {m[e].nodes : e \in EntriesOf(m, q.target)}
            ELSE (~isUnknownOff(q.len) /\ q.len >= 1
                    /\ KnownLengths(m, q.target))
                 => ret.nodes =
                       UNION {m[e].nodes :
                                e \in {x \in EntriesOf(m, q.target) :
                                         \/ isUnknownOff(x.offset)
                                         \/ RangesIntersect(x, q)}}

\* get(obj, 4, 1) over the entries [0,4) and [4,8) of obj returns only the
\* nodes of [4,8)
C7_Witness ==
    /\ call.op = "get" /\ call.ds = DefSite(TgtA, 4, 1)
    /\ This = (DefSite(TgtA, 0, 4) :> S({N1})) @@ (DefSite(TgtA, 4, 4) :> S({N2}))
    /\ ret.nodes = {N2}

(***************************************************************************)
(* MemoryObj (specification SpecMO).                                       *)
(***************************************************************************)
MaxSetUnknown == 2      \* setUnknown calls of a run
PtOffsets == {0, UNKNOWN_OFFSET}
Pointers == {Pointer(o, off) : o \in {1, 2}, off \in {0, UNKNOWN_OFFSET}}

AddPointsTo(off, ptr) ==
    \E r \in {addPointsTo(node, pointsTo, off, ptr)} :
        /\ node' = r.node
        /\ pointsTo' = r.pointsTo
        /\ moRet' = r.ret
        /\ moCall' = [op |-> "addPointsTo", off |-> off, ptr |-> ptr]
        /\ UNCHANGED <<nSetUnknown, rdVars>>

SetUnknown ==
    /\ nSetUnknown < MaxSetUnknown
    /\ \E r \in {setUnknown(node, pointsTo)} :
          /\ node' = r.node
          /\ pointsTo' = r.pointsTo
          /\ moRet' = r.ret
    /\ moCall' = [op |-> "setUnknown", off |-> 0, ptr |-> Pointer(0, 0)]
    /\ nSetUnknown' = nSetUnknown + 1
    /\ UNCHANGED rdVars

AddAny == \E off \in PtOffsets, ptr \in Pointers : AddPointsTo(off, ptr)

NextMO == AddAny \/ SetUnknown

InitMemObj ==
    /\ defs = [x \in Maps |-> EmptyMap]
    /\ cfg = DefaultArgs
    /\ InitGhost
    /\ InitMO

SpecMO == InitMemObj /\ [][NextMO]_vars

NoPointsTo == [x \in {} |-> {}]

\* C10 (as stated): a MemoryObj goes from precise to unknown and never
\* back: the first setUnknown returns true and empties the points-to map,
\* every later setUnknown returns false, every addPointsTo after it returns
\* false and leaves the map empty.
C10_UnknownIsFinal ==
    /\ nSetUnknown >= 1 => (isUnknown(node) /\ pointsTo = NoPointsTo)
    /\ (moCall.op = "setUnknown" /\ nSetUnknown = 1) => moRet = TRUE
    /\ (moCall.op = "setUnknown" /\ nSetUnknown > 1) => moRet = FALSE
    /\ (moCall.op = "addPointsTo" /\ nSetUnknown >= 1) => moRet = FALSE

\* a call made on an unknown object returns false and leaves it unknown
\* with an empty points-to map
StaysUnknown ==
    isUnknown(node) =>
        (isUnknown(node') /\ pointsTo' = NoPointsTo /\ moRet' = FALSE)

\* setUnknown called on a precise object returns true, makes it unknown and
\* empties the points-to map
BecomesUnknown ==
    (~isUnknown(node) /\ moCall'.op = "setUnknown") =>
        (moRet' = TRUE /\ isUnknown(node') /\ pointsTo' = NoPointsTo)

\* C10 (amended): an unknown MemoryObj has an empty points-to map and never
\* becomes precise again: every setUnknown and addPointsTo made on it
\* returns false; on an object constructed with a node the first setUnknown
\* returns true and empties the map; an object constructed without a node
\* is unknown from the start, so its first setUnknown returns false too.
C10_UnknownIsFinalOnceUnknown ==
    /\ [](isUnknown(node) => pointsTo = NoPointsTo)
    /\ [][StaysUnknown /\ BecomesUnknown]_vars

\* the first setUnknown of an object constructed with a node has returned
C10_Witness ==
    /\ moCall.op = "setUnknown" /\ nSetUnknown = 1
    /\ moRet = TRUE /\ isUnknown(node) /\ pointsTo = NoPointsTo

(***************************************************************************)
(* add and update (specification SpecUpdate): a map that holds up to       *)
(* MaxEntries entries is updated at one site, then updated again.          *)
(***************************************************************************)
\* this->add(ds, n)
Add(this, ds, n) ==
    \E r \in {add(defs[this], ds, n)} :
        /\ defs' = [defs EXCEPT ![this] = r.defs]
        /\ call' = [op |-> "add", this |-> this, oth |-> this, ds |-> ds,
                    n |-> n]
        /\ ret' = [changed |-> r.ret, nodes |-> {}, skipped |-> {}]
        /\ before' = defs
        /\ prev' = call
        /\ UNCHANGED <<cfg, moVars>>

\* this->update(ds, n)
Update(this, ds, n) ==
    \E r \in {update(defs[this], ds, n)} :
        /\ defs' = [defs EXCEPT ![this] = r.defs]
        /\ call' = [op |-> "update", this |-> this, oth |-> this, ds |-> ds,
                    n |-> n]
        /\ ret' = [changed |-> r.ret, nodes |-> {}, skipped |-> {}]
        /\ before' = defs
        /\ prev' = call
        /\ UNCHANGED <<cfg, moVars>>

UpdateSites ==
    {DefSite(TgtA, 0, 4), DefSite(TgtA, 2, 4), DefSite(TgtA, 0, 2),
     DefSite(TgtA, UNKNOWN_OFFSET, UNKNOWN_OFFSET), DefSite(TgtD, 0, 4)}
UpdateSets == {S({N1}), S({N2}), S({N1, N2}), Unk}

InitUpdate ==
    /\ \E m \in MapsOver(UpdateSites, UpdateSets, MaxEntries) :
          defs = [x \in Maps |-> IF x = 1 THEN m ELSE EmptyMap]
    /\ cfg = DefaultArgs
    /\ InitGhost
    /\ IdleMO

\* the first update of a run
UpdateFirst ==
    call.op = "none" /\ \E ds \in UpdateSites, n \in DefNodes : Update(1, ds, n)

\* the same update once more
UpdateAgain ==
    call.op = "update" /\ prev.op = "none" /\ Update(1, call.ds, call.n)

\* a node added to the map that was updated
AddAfter ==
    call.op = "update" /\ prev.op = "none"
        /\ \E ds \in UpdateSites, n \in DefNodes : Add(1, ds, n)

NextUpdate == UpdateFirst \/ UpdateAgain \/ AddAfter

SpecUpdate == InitUpdate /\ [][NextUpdate]_vars

IsUpdate == call.op = "update"

\* the node set the map m has for the site ds (none when ds has no entry)
SetAt(m, ds) == IF ds \in DOMAIN m THEN m[ds] ELSE EmptySet

\* C12: update(site, node) leaves exactly {node} at site, leaves every other
\* entry as it was, returns true iff the set at site was not {node} before,
\* and returns false when it is called again with the same arguments.
C12_UpdateReplaces ==
    IsUpdate =>
        /\ DOMAIN This = DOMAIN ThisBefore \cup {call.ds}
        /\ This[call.ds] = S({call.n})
        /\ \A e \in DOMAIN ThisBefore : e # call.ds => This[e] = ThisBefore[e]
        /\ ret.changed <=> (SetAt(ThisBefore, call.ds) # S({call.n}))
        /\ prev = call => ~ret.changed

C12_Witness ==
    /\ IsUpdate /\ ret.changed
    /\ Cardinality(SetAt(ThisBefore, call.ds).nodes) = 2
    /\ \E e \in DOMAIN This :
          /\ e # call.ds /\ e.target = call.ds.target
          /\ intervalsOverlap(e.offset, e.offset + e.len - 1, call.ds.offset,
                              call.ds.offset + call.ds.len - 1)

(***************************************************************************)
(* Maps built by calls (specification SpecOps): map 1 starts empty and is  *)
(* built by add and update; then map 2 is made a copy of map 1, and map 1  *)
(* is merged with map 2 and with itself, any number of times.              *)
(***************************************************************************)
OpsSites ==
    {DefSite(TgtA, 0, 4), DefSite(TgtA, UNKNOWN_OFFSET, 4),
     DefSite(TgtA, UNKNOWN_OFFSET, UNKNOWN_OFFSET)}

InitOps ==
    /\ defs = [x \in Maps |-> EmptyMap]
    /\ \E k \in FoldKills, max \in MaxSetSizes, fold \in BOOLEAN :
          cfg = Args(k, TRUE, max, fold)
    /\ InitGhost
    /\ IdleMO

\* map 1 is still being built: no copy of it was taken yet
Building == defs[2] = EmptyMap

AddTo == Building /\ \E ds \in OpsSites, n \in DefNodes : Add(1, ds, n)

UpdateAt == Building /\ \E ds \in OpsSites, n \in DefNodes : Update(1, ds, n)

\* map 2 = RDMap(map 1)
CopyOut == Copy(2, 1)

\* map 1 merges map 2
MergeBack == Merge(1, 2)

\* map 1 merges itself
MergeSelf == Merge(1, 1)

NextOps == AddTo \/ UpdateAt \/ CopyOut \/ MergeBack \/ MergeSelf

SpecOps == InitOps /\ [][NextOps]_vars

\* the last call merged into a map a distinct map with the same entries and
\* node sets, with no kill set
IsEqualCopyMerge ==
    /\ IsMerge
    /\ Oth = ThisBefore
    /\ ~cfg.no_update.has

\* no node set of m holds more than max nodes
WithinCap(m, max) ==
    \A e \in DOMAIN m :
        isUnknownNode(e.target) \/ Cardinality(m[e].nodes) <= max

\* every unknown-offset entry of m has unknown length and is the only entry
\* of its target
Folded(m) ==
    \A e \in DOMAIN m :
        isUnknownOff(e.offset) =>
            /\ isUnknownOff(e.len)
            /\ \A x \in DOMAIN m : x.target = e.target => x = e

\* C11 (as stated): merging a distinct equal copy with no kill set returns
\* false and leaves the map unchanged, whatever maxSetSize and foldUnknown.
C11_EqualCopyNoOp ==
    IsEqualCopyMerge => (~ret.changed /\ This = ThisBefore)

\* C11 (amended): merging a distinct equal copy with no kill set returns
\* false and leaves the map unchanged when no node set of the map holds more
\* than maxSetSize nodes and, with foldUnknown, every unknown-offset entry
\* has unknown length and is the only entry of its target.
C11_EqualCopyNoOpWhenNormal ==
    (/\ IsEqualCopyMerge
     /\ WithinCap(ThisBefore, cfg.max_set_size)
     /\ cfg.merge_unknown => Folded(ThisBefore))
    => (~ret.changed /\ This = ThisBefore)

C11_Witness ==
    /\ IsEqualCopyMerge /\ prev.op = "merge"
    /\ WithinCap(ThisBefore, cfg.max_set_size)
    /\ cfg.merge_unknown /\ Folded(ThisBefore)
    /\ DefSite(TgtA, UNKNOWN_OFFSET, UNKNOWN_OFFSET) \in DOMAIN ThisBefore
    /\ ~ret.changed /\ This = ThisBefore

\* the last call merged a map with itself
IsSelfMerge == call.op = "merge" /\ call.this = call.oth

\* C13: self-merge is a no-op: it returns false and changes no entry of the
\* map, whatever the kill set and the flags (nothing is folded or capped).
C13_SelfMergeNoOp ==
    IsSelfMerge => (~ret.changed /\ defs = before)

C13_Witness ==
    /\ IsSelfMerge /\ ~ret.changed /\ defs = before
    /\ cfg.merge_unknown /\ ~Folded(This)
    /\ ~WithinCap(This, cfg.max_set_size)
    /\ cfg.no_update.has
    /\ This # EmptyMap /\ Oth = This

(***************************************************************************)
(* Unknown offsets under a kill set (specification SpecKill).              *)
(***************************************************************************)
\* C14: an incoming site with unknown offset is dropped by a kill set only
\* in the whole-object case: killUnknownWithFullOverwrite on, target size
\* known, and a kill entry at offset 0 at least as long as the target.
C14_UnknownOffsetWeakUpdate ==
    (IsMerge /\ cfg.no_update.has) =>
        \A ds \in DOMAIN Oth :
            (isUnknownOff(ds.offset) /\ Dropped(ds)) =>
                /\ cfg.strong_update_unknown
                /\ getSize(ds.target) > 0
                /\ KillsWhole(ds)

(***************************************************************************)
(* Queries with unknown lengths (specification SpecGet).                   *)
(***************************************************************************)
\* the entry e may share a byte with the query q of concrete offset: a range
\* of unknown length has no known end, an entry of unknown offset may lie
\* anywhere
MayShare(e, q) ==
    \/ isUnknownOff(e.offset)
    \/ /\ isUnknownOff(q.len) \/ e.offset < q.offset + q.len
       /\ isUnknownOff(e.len) \/ q.offset < e.offset + e.len

\* C15: for a query with a concrete offset, get returns the nodes of every
\* entry of the target that may share a byte with the query, also when the
\* length of the query or of the entry is unknown.
C15_GetConservative ==
    (call.op = "get" /\ ~isUnknownOff(call.ds.offset)) =>
        \A e \in EntriesOf(This, call.ds.target) :
            MayShare(e, call.ds) => This[e].nodes \subseteq ret.nodes

(***************************************************************************)
(* Kill sets with an unknown-offset entry (specification SpecKill).        *)
(***************************************************************************)
\* the kill set has an entry with unknown offset for the target of ds
ImpreciseKill(ds) ==
    \E k \in killRange(cfg.no_update.sites, ds) : isUnknownOff(k.offset)

\* C16: when the kill set has an entry with unknown offset for the target of
\* an incoming non-dynamic site, the site is not dropped and its nodes are
\* merged, whatever concrete kill entries the target has besides.
C16_ImpreciseKillKeeps ==
    (IsMerge /\ cfg.no_update.has) =>
        \A ds \in DOMAIN Oth :
            (getType(ds.target) # "DYN_ALLOC" /\ ImpreciseKill(ds)) =>
                ~Dropped(ds) /\ MergedIn(This, Oth, ds)

(***************************************************************************)
(* The value merge returns (specification Spec).                           *)
(***************************************************************************)
\* C17: merge returns true iff the content of the receiving map (its sites,
\* their node sets and their collapsed state) differs from the content it
\* had before the call.
C17_ReturnIsExact ==
    IsMerge => (ret.changed <=> This # ThisBefore)

(***************************************************************************)
(* Folding over a sequence of merges (specification SpecDriver: map 1      *)
(* starts empty and every merge uses the same foldUnknown).                *)
(***************************************************************************)
\* the map m has an unknown-offset entry and a concrete-offset entry of one
\* target
Mixed(m) ==
    \E e \in DOMAIN m, x \in DOMAIN m :
        /\ e.target = x.target
        /\ isUnknownOff(e.offset) /\ ~isUnknownOff(x.offset)

\* C18: with foldUnknown, after every merge into a map that started empty
\* no target has both an unknown-offset entry and a concrete-offset entry.
C18_FoldedAfterMerge ==
    (IsMerge /\ call.this = 1 /\ cfg.merge_unknown) => ~Mixed(This)

(***************************************************************************)
(* Capping (specification SpecKill: targets of every kind, unknown memory  *)
(* among them).                                                            *)
(***************************************************************************)
\* the entries into which the last merge inserted the nodes of a site of
\* oth (one of them may have been folded away later in the same call)
TouchedKeys ==
    {ourKey(ds, strongUpdate(ds, cfg.no_update,
                             cfg.strong_update_unknown).is_unknown,
            cfg.merge_unknown) : ds \in DOMAIN Oth \ ret.skipped}

\* m has a collapsed node set for the target t
HasCollapsed(m, t) == \E x \in DOMAIN m : x.target = t /\ m[x].is_unknown

\* C19: when merge returns, every entry it unioned nodes into whose target
\* is not unknown memory holds at most maxSetSize nodes or is collapsed; an
\* entry of unknown memory is not collapsed by merge (it is collapsed only
\* when a set merged into it already was).
C19_Capping ==
    IsMerge =>
        /\ \A e \in TouchedKeys \cap DOMAIN This :
              \/ isUnknownNode(e.target)
              \/ This[e].is_unknown
              \/ Cardinality(This[e].nodes) <= cfg.max_set_size
        /\ \A e \in DOMAIN This :
              (isUnknownNode(e.target) /\ This[e].is_unknown) =>
                  \/ HasCollapsed(ThisBefore, e.target)
                  \/ HasCollapsed(Oth, e.target)

C19_Witness ==
    /\ IsMerge
    /\ \E e \in TouchedKeys \cap DOMAIN This :
          /\ ~isUnknownNode(e.target) /\ This[e].is_unknown
          /\ e \in DOMAIN ThisBefore /\ ~ThisBefore[e].is_unknown
          /\ ~HasCollapsed(Oth, e.target)

(***************************************************************************)
(* Queries after a merge (specification SpecQuery): map 1 merges map 2     *)
(* with no kill set, then both maps are queried.                           *)
(***************************************************************************)
QuerySites ==
    {DefSite(TgtA, 0, 4), DefSite(TgtA, 0, 2), DefSite(TgtA, 4, 4),
     DefSite(TgtA, 2, UNKNOWN_OFFSET), DefSite(TgtA, UNKNOWN_OFFSET, 4),
     DefSite(TgtA, UNKNOWN_OFFSET, UNKNOWN_OFFSET)}
QueryArgs ==
    {DefSite(TgtA, o, l) : o \in {0, 2, 4, UNKNOWN_OFFSET},
                           l \in {1, 4, UNKNOWN_OFFSET}}

InitQuery ==
    /\ \E m \in UpToOne(QuerySites, {S({N1})}),
          o \in MapsOver(QuerySites, {S({N1}), S({N2})}, MaxEntries) :
          defs = [x \in Maps |-> IF x = 1 THEN m ELSE IF x = 2 THEN o
                                 ELSE EmptyMap]
    /\ \E max \in MaxSetSizes, fold \in BOOLEAN :
          cfg = Args(NoKill, TRUE, max, fold)
    /\ InitGhost
    /\ IdleMO

MergeFirst == call.op = "none" /\ Merge(1, 2)

\* a query of the source map, or of the receiving map, after the merge
GetAfter ==
    call.op = "merge" /\ \E x \in {1, 2}, q \in QueryArgs : Get(x, q)

NextQuery == MergeFirst \/ GetAfter

SpecQuery == InitQuery /\ [][NextQuery]_vars

\* no node set of m is collapsed
NoneCollapsed(m) == \A e \in DOMAIN m : ~m[e].is_unknown

\* the last call queried the source map of the merge made before it
IsSourceQuery ==
    /\ call.op = "get" /\ prev.op = "merge"
    /\ call.this = prev.oth /\ prev.this # prev.oth

\* C20: after M.merge(O) with no kill set and maxSetSize never exceeded,
\* every node that O.get(target, offset, length) returns is returned by
\* M.get(target, offset, length) too.
C20_MergeSoundForQueries ==
    (/\ IsSourceQuery
     /\ ~cfg.no_update.has
     /\ NoneCollapsed(defs[prev.this]))
    => ret.nodes \subseteq get(defs[prev.this], call.ds)

C20_Witness ==
    /\ IsSourceQuery /\ NoneCollapsed(defs[prev.this])
    /\ call.ds = DefSite(TgtA, 0, 4)
    /\ ret.nodes = {N2}
    /\ defs[2] = (DefSite(TgtA, 0, 4) :> S({N2}))
    /\ DOMAIN defs[1] = {DefSite(TgtA, 0, 2), DefSite(TgtA, 0, 4)}

====
